---- MODULE Spec2Model ----
(***************************************************************************)
(* Model of the omnistat performance-counter collector                     *)
(* (src/pmc-collector/main.cpp): the per-device collector with its profile *)
(* cache, the record aggregation, and the polling program with its session *)
(* validity flag.  The rocprofiler hardware layer is the environment: each *)
(* of its calls returns a status and outputs chosen nondeterministically   *)
(* within what the call's interface allows.                                *)
(***************************************************************************)
EXTENDS Integers, Sequences, FiniteSets, TLC

(***************************************************************************)
(* Bounds of the model.                                                    *)
(***************************************************************************)
\* largest value a hardware record carries
MaxVal == 1
\* profiles one device may be asked to build (caps the cache growth)
MaxProfiles == 2
\* devices (GPU agents) of the system
NumDevices == 2
\* polling iterations of the main loop
MaxPolls == 2

Devices == 1..NumDevices

(***************************************************************************)
(* The device's counter catalog, as the hardware layer reports it.         *)
(***************************************************************************)
GRBM == "GRBM_COUNT"
SQW == "SQ_WAVES"
BOGUS == "BOGUS_COUNTER_NAME"

KnownNames == {GRBM, SQW}

\* rocprofiler_counter_id_t handle of each supported counter
CounterHandle == (GRBM :> 1) @@ (SQW :> 2)

CounterIds == {CounterHandle[n] : n \in KnownNames}

\* instance_size of each dimension of a counter
DimensionSizes == (1 :> <<2>>) @@ (2 :> <<3, 1>>)

\* the requests (counter-name sequences) callers pass to sample_counters
Requests == { <<GRBM>>, <<BOGUS>>, <<BOGUS, GRBM>>,
              <<GRBM, SQW>>, <<SQW, GRBM>>, <<GRBM, GRBM>> }

(***************************************************************************)
(* Helpers on sequences and maps.                                          *)
(***************************************************************************)
RECURSIVE Product(_)
Product(s) == IF s = <<>> THEN 1 ELSE Head(s) * Product(Tail(s))

RECURSIVE SumSeq(_)
SumSeq(s) == IF s = <<>> THEN 0 ELSE Head(s) + SumSeq(Tail(s))

Range(s) == {s[k] : k \in DOMAIN s}

\* a map that holds the latest entry only
Emplace_Evicts(m, k, v) == (k :> v)

\* std::map::emplace: inserts only when the key is absent
Emplace(m, k, v) == IF k \in DOMAIN m THEN m ELSE m @@ (k :> v)

EmptyMap == <<>>

\* a value-initialized rocprofiler_record_counter_t
ZeroRecord == [id |-> 0, counter_value |-> 0]

\* std::vector::resize: truncates, or appends value-initialized elements
Resize(v, n) ==
  [k \in 1..n |-> IF k <= Len(v) THEN v[k] ELSE ZeroRecord]

(***************************************************************************)
(* The hardware layer's record ids: an id encodes the counter and the      *)
(* instance position, and is never zero for a written record.              *)
(***************************************************************************)
IdStride == 8

RecordId(ctr, pos) == ctr * IdStride + pos

\* rocprofiler_query_record_counter_id
QueryRecordCounterId(id) == id \div IdStride

\* the true number of instances of a counter
TrueSize(ctr) == Product(DimensionSizes[ctr])

\* a profile config holds each counter once (the hardware layer drops repeats)
RECURSIVE Dedup(_)
Dedup(s) ==
  IF s = <<>> THEN <<>>
  ELSE LET r == Dedup(SubSeq(s, 1, Len(s) - 1))
       IN IF s[Len(s)] \in Range(r) THEN r ELSE Append(r, s[Len(s)])

\* the (counter, position) slots a sample of config cfg produces, in order
RECURSIVE Slots(_)
Slots(cfg) ==
  IF cfg = <<>> THEN <<>>
  ELSE [p \in 1..TrueSize(Head(cfg)) |-> RecordId(Head(cfg), p - 1)]
       \o Slots(Tail(cfg))

(***************************************************************************)
(* State.  The collector fields are functions over the devices; hw_ctx and *)
(* hw_configs are the hardware layer's side of each device.  call, values  *)
(* and history record what the last operation did and what it returned.    *)
(***************************************************************************)
VARIABLES
  collectors,        \* the global vector of constructed collectors (devices)
  profile_,          \* per device: handle of the active profile, 0 = none
  cached_profiles_,  \* per device: request -> profile handle
  profile_sizes_,    \* per device: profile handle -> expected record count
  id_to_name_,       \* per device: counter handle -> name (lazy index)
  hw_ctx,            \* per device: "none", "created", "active", "stopped"
  hw_configs,        \* per device: profile handle -> counters of the config
  hw_dims_ok,        \* per device: whether its dimension queries succeed
  records,           \* the caller's reused output buffer
  values,            \* what the last process_records returned (empty if it threw)
  call,              \* what the last operation did
  history,           \* per device: <<request, handle>> of completed samples
  decode_enumerated, \* per device: a decode has enumerated the catalog before
  pc, idx, done, valid, grbm_counts, report, polls, counters, agents,
  handlers,          \* the signals main has installed signal_handler for
  m_num_gpus,        \* DeviceSession: the device count read by create
  m_sessions,        \* DeviceSession: one session id per GPU
  m_metrics,         \* DeviceSession: one row of metric values per GPU
  hw_sessions,       \* hardware layer: state of every profiling session, by id
  created,           \* DeviceSession: create has returned
  m_device_session,  \* Python object: "object", or "NULL" (no DeviceSession)
  py                 \* Python binding: what the last method call did

sessionVars == <<m_num_gpus, m_sessions, m_metrics, hw_sessions, created,
                 m_device_session, py>>

collectorVars == <<collectors, profile_, cached_profiles_, profile_sizes_,
                   id_to_name_, hw_ctx, hw_configs, hw_dims_ok>>
callerVars == <<records, values, call, history, decode_enumerated>>
mainVars == <<pc, idx, done, valid, grbm_counts, report, polls, counters, agents,
              handlers, sessionVars>>
vars == <<collectorVars, callerVars, mainVars>>

(***************************************************************************)
(* device_collector::get_counter_size: size starts at 1 and is multiplied  *)
(* by every dimension's instance_size in the callback; the status of the   *)
(* dimension query is not looked at, so a failed query leaves size at 1.   *)
(***************************************************************************)
get_counter_size(counter, dimOk) ==
  IF dimOk THEN 1 * Product(DimensionSizes[counter]) ELSE 1

\* a loop that stops at the first unknown name instead of skipping it
ResolvedNames_StopsAtUnknown(req) ==
  LET bad == {k \in DOMAIN req : req[k] \notin KnownNames}
  IN IF bad = {} THEN req
     ELSE SubSeq(req, 1, (CHOOSE k \in bad : \A m \in bad : k <= m) - 1)

\* the names of a request found in the catalog, in request order
ResolvedNames(req) == SelectSeq(req, LAMBDA n : n \in KnownNames)

\* the names of a request reported as "Counter ... not found"
DroppedNames(req) == SelectSeq(req, LAMBDA n : n \notin KnownNames)

\* gpu_counters: the handles pushed for the resolved names
GpuCounters(req) ==
  [k \in DOMAIN ResolvedNames(req) |-> CounterHandle[ResolvedNames(req)[k]]]

\* expected_size accumulated over the resolved names
ExpectedSize(req, dimFail) ==
  SumSeq([k \in DOMAIN GpuCounters(req) |->
            get_counter_size(GpuCounters(req)[k], GpuCounters(req)[k] \notin dimFail)])

\* a key that forgets the order and the multiplicity of the names
CacheKey_Canonical(req) ==
  SelectSeq(<<BOGUS, GRBM, SQW>>, LAMBDA n : n \in Range(req))

\* the key of cached_profiles_ is the std::vector<std::string> itself,
\* compared element by element
CacheKey(req) == req

\* a lookup that never finds the request
CacheHit_NeverFinds(d, req) == FALSE

\* cached_profiles_.find(counters) != end()
CacheHit(d, req) == CacheKey(req) \in DOMAIN cached_profiles_[d]

(***************************************************************************)
(* device_collector::get_supported_counters throws when the listing of the *)
(* agent's counters reports non-success, or when the info query of one of  *)
(* the listed counters does; each failure carries its own message.         *)
(***************************************************************************)
CatalogFailures ==
  {"Could not fetch supported counters", "Could not query info for counter"}

(***************************************************************************)
(* The hardware layer's answers to the calls of the cache-miss branch:     *)
(* catThrew - "" when get_supported_counters returns the catalog, else the *)
(*           message of the call of it that reported non-success           *)
(* dimFail - counters whose dimension query reports a failure: none, or    *)
(*           every counter when the device's dimension queries fail        *)
(* profOk  - rocprofiler_create_profile_config succeeds                    *)
(* handle  - the profile handle it returns, among the handles H            *)
(***************************************************************************)
NoBuild == [catThrew |-> "", dimFail |-> {}, profOk |-> TRUE, handle |-> 0]

BuildChoices(d, req, H) ==
  IF CacheHit(d, req) THEN {NoBuild}
  ELSE {[NoBuild EXCEPT !.catThrew = msg] : msg \in CatalogFailures}
       \cup {[NoBuild EXCEPT !.profOk = FALSE]}
       \cup {[NoBuild EXCEPT !.dimFail = F, !.handle = h] :
               F \in {IF hw_dims_ok[d] THEN {} ELSE Range(GpuCounters(req))},
               h \in H}

(***************************************************************************)
(* device_collector::sample_counters, lines 145-166: the profile lookup.   *)
(* The result names the failure thrown ("" when none) and the collector's  *)
(* maps after the branch.                                                  *)
(***************************************************************************)
BuildProfile(d, req, bc) ==
  LET base == [threw |-> "", hit |-> CacheHit(d, req),
               catalog_queried |-> ~CacheHit(d, req),
               profile_requested |-> FALSE,
               warned |-> <<>>, hw_failed |-> FALSE,
               cached |-> cached_profiles_[d], sizes |-> profile_sizes_[d],
               configs |-> hw_configs[d]]
  IN IF CacheHit(d, req) THEN base
     ELSE IF bc.catThrew # ""
       THEN [base EXCEPT !.threw = bc.catThrew,
                         !.hw_failed = TRUE]
     ELSE IF ~bc.profOk
       THEN [base EXCEPT !.threw = "Could not create profile",
                         !.profile_requested = TRUE,
                         !.warned = DroppedNames(req), !.hw_failed = TRUE]
     ELSE [base EXCEPT
             !.profile_requested = TRUE,
             !.warned = DroppedNames(req),
             !.hw_failed = (bc.dimFail # {}),
             !.cached = Emplace(cached_profiles_[d], CacheKey(req), bc.handle),
             !.sizes = Emplace(profile_sizes_[d], bc.handle,
                               ExpectedSize(req, bc.dimFail)),
             !.configs = (bc.handle :> Dedup(GpuCounters(req))) @@ hw_configs[d]]

(***************************************************************************)
(* The hardware layer's answers to lines 170-173:                          *)
(* startOk - rocprofiler_start_context succeeds (its status is dropped);   *)
(*           starting a context that is already active succeeds            *)
(* status  - of rocprofiler_sample_device_counting_service (dropped too):  *)
(*   "ok"        the records of the active profile's config are written    *)
(*               and out_size is set to their number; needs an active      *)
(*               context, a profile handed over by set_profile and a       *)
(*               buffer large enough;                                      *)
(*   "too_small" the buffer is too small: nothing is written and out_size  *)
(*               is set to the number of records needed;                   *)
(*   "error"     nothing is written, out_size is left as passed.           *)
(* val     - the value the written records carry (one reading per sample)  *)
(***************************************************************************)
ConfigOf(configs, handle) ==
  IF handle # 0 /\ handle \in DOMAIN configs THEN configs[handle] ELSE <<>>

SampleChoices(d, b, req) ==
  LET handle == b.cached[CacheKey(req)]
      cap == b.sizes[handle]
      cfg == ConfigOf(b.configs, handle)
      T == Len(Slots(cfg))
  IN UNION { LET active == startOk \/ hw_ctx[d] = "active"
                 blank == [startOk |-> startOk, status |-> "error", val |-> 0]
             IN {blank}
                \cup (IF handle # 0 /\ T > cap
                        THEN {[blank EXCEPT !.status = "too_small"]} ELSE {})
                \cup (IF active /\ handle # 0 /\ T <= cap
                        THEN {[blank EXCEPT !.status = "ok", !.val = v] :
                                v \in 0..MaxVal}
                        ELSE {})
           : startOk \in IF hw_ctx[d] = "active" THEN {TRUE} ELSE BOOLEAN }

(***************************************************************************)
(* device_collector::set_profile: the callback hands profile_ to the       *)
(* context only when its handle is not zero.                               *)
(***************************************************************************)
\* a callback that hands profile_ over whatever it holds
set_profile_Always(profile) == {profile}

set_profile(profile) == IF profile # 0 THEN {profile} ELSE {}

(***************************************************************************)
(* device_collector::sample_counters, lines 168-174: size the buffer from  *)
(* profile_sizes_, make the profile the active one, start the context,     *)
(* sample, and resize the buffer to the out_size the hardware reports.     *)
(***************************************************************************)
SampleStage(d, b, req, out, sc) ==
  LET handle == b.cached[CacheKey(req)]
      cap == b.sizes[handle]
      out1 == Resize(out, cap)
      slots == Slots(ConfigOf(b.configs, handle))
      written == [k \in 1..cap |->
                    IF sc.status = "ok" /\ k <= Len(slots)
                      THEN [id |-> slots[k], counter_value |-> sc.val]
                      ELSE out1[k]]
      out_size == IF sc.status = "error" THEN cap ELSE Len(slots)
  IN [threw |-> "", hit |-> b.hit, catalog_queried |-> b.catalog_queried,
      profile_requested |-> b.profile_requested, warned |-> b.warned,
      hw_failed |-> (b.hw_failed \/ ~sc.startOk \/ sc.status # "ok"),
      cached |-> b.cached, sizes |-> b.sizes, configs |-> b.configs,
      profile |-> handle,
      handed |-> set_profile(handle),
      ctx |-> IF sc.startOk THEN "active" ELSE hw_ctx[d],
      expected |-> cap, status |-> sc.status,
      out |-> Resize(written, out_size)]

\* a failure path that resets the active profile
Thrown_ResetsProfile(d, b, out) ==
  [threw |-> b.threw, hit |-> b.hit, catalog_queried |-> b.catalog_queried,
   profile_requested |-> b.profile_requested, warned |-> b.warned,
   hw_failed |-> b.hw_failed,
   cached |-> b.cached, sizes |-> b.sizes, configs |-> b.configs,
   profile |-> 0, handed |-> {}, ctx |-> hw_ctx[d],
   expected |-> 0, status |-> "none", out |-> out]

\* the result of a sample_counters call that threw: nothing after the throw ran
Thrown(d, b, out) ==
  [threw |-> b.threw, hit |-> b.hit, catalog_queried |-> b.catalog_queried,
   profile_requested |-> b.profile_requested, warned |-> b.warned,
   hw_failed |-> b.hw_failed,
   cached |-> b.cached, sizes |-> b.sizes, configs |-> b.configs,
   profile |-> profile_[d], handed |-> {}, ctx |-> hw_ctx[d],
   expected |-> 0, status |-> "none", out |-> out]

(***************************************************************************)
(* device_collector::sample_counters: every result the call can have on    *)
(* collector d for request req and caller buffer out, over the hardware    *)
(* layer's answers, with profile handles drawn from H.                     *)
(***************************************************************************)
sample_counters(d, req, out, H) ==
  UNION { IF b.threw # "" THEN {Thrown(d, b, out)}
          ELSE {SampleStage(d, b, req, out, sc) : sc \in SampleChoices(d, b, req)}
        : b \in {BuildProfile(d, req, bc) : bc \in BuildChoices(d, req, H)} }

(***************************************************************************)
(* device_collector::decode_record_name and process_records.               *)
(***************************************************************************)
\* the handle -> name index built from get_supported_counters
NameIndex == [h \in CounterIds |-> CHOOSE n \in KnownNames : CounterHandle[n] = h]

\* a loop that assigns the record's value instead of adding it
RECURSIVE Accumulate_KeepsLast(_, _, _)
Accumulate_KeepsLast(recs, index, acc) ==
  IF recs = <<>> THEN acc
  ELSE LET rec == Head(recs)
           name == index[QueryRecordCounterId(rec.id)]
       IN IF rec.id # 0
            THEN Accumulate_KeepsLast(Tail(recs), index,
                                      (name :> rec.counter_value) @@ acc)
            ELSE Accumulate_KeepsLast(Tail(recs), index, acc)

\* the loop of process_records: accumulated_values[name] += counter_value
\* for every record whose id is not zero
RECURSIVE Accumulate(_, _, _)
Accumulate(recs, index, acc) ==
  IF recs = <<>> THEN acc
  ELSE LET rec == Head(recs)
           name == index[QueryRecordCounterId(rec.id)]
           cur == IF name \in DOMAIN acc THEN acc[name] ELSE 0
       IN IF rec.id # 0
            THEN Accumulate(Tail(recs), index,
                            (name :> cur + rec.counter_value) @@ acc)
            ELSE Accumulate(Tail(recs), index, acc)

\* records that reach decode_record_name
Decoded(recs) == SelectSeq(recs, LAMBDA rec : rec.id # 0)

(***************************************************************************)
(* process_records on collector d: every result over the hardware layer's  *)
(* answers to the catalog query of the first decode and to the record-id   *)
(* queries.  enumerated tells whether the catalog was enumerated to build  *)
(* the index.  The status of rocprofiler_query_record_counter_id is not    *)
(* looked at: when the query of a record fails the handle stays 0 and the  *)
(* lookup throws std::out_of_range, so no mapping is returned.             *)
(***************************************************************************)
process_records(d, recs) ==
  LET quiet == [threw |-> "", index |-> id_to_name_[d], values |-> EmptyMap,
                enumerated |-> FALSE, hw_failed |-> FALSE]
      finish(base) ==
        { IF \E k \in DOMAIN recs :
               recs[k].id # 0 /\ QueryRecordCounterId(recs[k].id) \notin DOMAIN base.index
            THEN [base EXCEPT !.threw = "out_of_range"]
            ELSE [base EXCEPT !.values = Accumulate(recs, base.index, EmptyMap)],
          [base EXCEPT !.threw = "out_of_range", !.hw_failed = TRUE] }
  IN IF Decoded(recs) = <<>> THEN {quiet}
     ELSE IF id_to_name_[d] = EmptyMap
       THEN { [quiet EXCEPT !.threw = msg, !.enumerated = TRUE,
                            !.hw_failed = TRUE] : msg \in CatalogFailures }
            \cup finish([quiet EXCEPT !.index = NameIndex, !.enumerated = TRUE])
       ELSE finish(quiet)

(***************************************************************************)
(* device_collector::decode_record_name on collector d for a record with   *)
(* id rec_id: the index is built from the catalog when it is empty (the    *)
(* catalog query may fail and throw), then the record's counter handle is  *)
(* looked up with at(), which throws std::out_of_range when it is absent;  *)
(* the status of rocprofiler_query_record_counter_id is not looked at, and *)
(* a failed query leaves the handle at 0, which is absent.                 *)
(***************************************************************************)
\* a decode that builds the index at every call
decode_record_name_EveryCall(d, rec_id) ==
  LET quiet == [threw |-> "", index |-> id_to_name_[d], name |-> "",
                enumerated |-> FALSE, hw_failed |-> FALSE]
      at(base) ==
        { IF QueryRecordCounterId(rec_id) \in DOMAIN base.index
            THEN [base EXCEPT !.name = base.index[QueryRecordCounterId(rec_id)]]
            ELSE [base EXCEPT !.threw = "out_of_range"],
          [base EXCEPT !.threw = "out_of_range", !.hw_failed = TRUE] }
  IN { [quiet EXCEPT !.threw = msg, !.enumerated = TRUE,
                     !.hw_failed = TRUE] : msg \in CatalogFailures }
     \cup at([quiet EXCEPT !.index = NameIndex, !.enumerated = TRUE])

decode_record_name(d, rec_id) ==
  LET quiet == [threw |-> "", index |-> id_to_name_[d], name |-> "",
                enumerated |-> FALSE, hw_failed |-> FALSE]
      at(base) ==
        { IF QueryRecordCounterId(rec_id) \in DOMAIN base.index
            THEN [base EXCEPT !.name = base.index[QueryRecordCounterId(rec_id)]]
            ELSE [base EXCEPT !.threw = "out_of_range"],
          [base EXCEPT !.threw = "out_of_range", !.hw_failed = TRUE] }
  IN IF id_to_name_[d] = EmptyMap
       THEN { [quiet EXCEPT !.threw = msg, !.enumerated = TRUE,
                            !.hw_failed = TRUE] : msg \in CatalogFailures }
            \cup at([quiet EXCEPT !.index = NameIndex, !.enumerated = TRUE])
       ELSE at(quiet)

\* process_records is not reached when sample_counters threw
NotProcessed(d) ==
  [threw |-> "", index |-> id_to_name_[d], values |-> EmptyMap,
   enumerated |-> FALSE, hw_failed |-> FALSE]

(***************************************************************************)
(* What the last operation did.                                            *)
(***************************************************************************)
NoCall ==
  [op |-> "none", dev |-> 0, req |-> <<>>, threw |-> "", hit |-> FALSE,
   seen_before |-> FALSE, catalog_queried |-> FALSE,
   profile_requested |-> FALSE, warned |-> <<>>, hw_failed |-> FALSE,
   expected |-> 0, handle |-> 0, handed |-> {}, status |-> "none",
   returned |-> 0, decode_threw |-> "", enumerated |-> FALSE,
   reenumerated |-> FALSE, decoded |-> ""]

SampleCall(d, req, r, p) ==
  [NoCall EXCEPT
     !.op = "sample", !.dev = d, !.req = req, !.threw = r.threw, !.hit = r.hit,
     !.seen_before = (\E h \in history[d] : h[1] = req),
     !.catalog_queried = r.catalog_queried,
     !.profile_requested = r.profile_requested,
     !.warned = r.warned, !.hw_failed = (r.hw_failed \/ p.hw_failed),
     !.expected = r.expected, !.handle = r.profile, !.handed = r.handed,
     !.status = r.status,
     !.returned = IF r.threw = "" THEN Len(r.out) ELSE 0,
     !.decode_threw = p.threw, !.enumerated = p.enumerated,
     !.reenumerated = (p.enumerated /\ decode_enumerated[d])]

(***************************************************************************)
(* The effect of sample_counters followed by process_records (main.cpp     *)
(* lines 371-372, 381-382, 398-399) on the collector and the caller.       *)
(***************************************************************************)
ApplySample(d, req, r, p) ==
  /\ cached_profiles_' = [cached_profiles_ EXCEPT ![d] = r.cached]
  /\ profile_sizes_' = [profile_sizes_ EXCEPT ![d] = r.sizes]
  /\ hw_configs' = [hw_configs EXCEPT ![d] = r.configs]
  /\ profile_' = [profile_ EXCEPT ![d] = r.profile]
  /\ hw_ctx' = [hw_ctx EXCEPT ![d] = r.ctx]
  /\ id_to_name_' = [id_to_name_ EXCEPT ![d] = p.index]
  /\ records' = r.out
  /\ values' = IF r.threw # "" THEN values ELSE p.values
  /\ call' = SampleCall(d, req, r, p)
  /\ history' = IF r.threw = ""
                  THEN [history EXCEPT ![d] = @ \cup {<<req, r.profile>>}]
                  ELSE history
  /\ decode_enumerated' = [decode_enumerated EXCEPT ![d] = @ \/ p.enumerated]

\* the handles rocprofiler_create_profile_config returns: a fresh one per config
FreshHandles(d) == {Cardinality(DOMAIN hw_configs[d]) + 1}

(***************************************************************************)
(* The Python binding's DeviceSession before create: no session exists.    *)
(* latest, num_gpus and num_metrics remember the most recent create: the   *)
(* ids it created, the count it returned, the number of names it was given. *)
(***************************************************************************)
NoPyCall ==
  [op |-> "none", crashed |-> FALSE, raised |-> "", list |-> <<>>,
   acted |-> {}, latest |-> {}, num_gpus |-> 0, num_metrics |-> 0]

InitSession ==
  /\ m_num_gpus = 0 /\ m_sessions = <<>> /\ m_metrics = <<>>
  /\ hw_sessions = <<>> /\ created = FALSE /\ py = NoPyCall
  /\ m_device_session = "object"

(***************************************************************************)
(* The collector driven through its interface: collectors are constructed  *)
(* and sampled with any request, in any order.                             *)
(***************************************************************************)
InitCollectors ==
  /\ collectors = <<>>
  /\ profile_ = [d \in Devices |-> 0]
  /\ cached_profiles_ = [d \in Devices |-> EmptyMap]
  /\ profile_sizes_ = [d \in Devices |-> EmptyMap]
  /\ id_to_name_ = [d \in Devices |-> EmptyMap]
  /\ hw_ctx = [d \in Devices |-> "none"]
  /\ hw_configs = [d \in Devices |-> EmptyMap]
  /\ hw_dims_ok = [d \in Devices |-> TRUE]
  /\ records = <<>>
  /\ values = EmptyMap
  /\ call = NoCall
  /\ history = [d \in Devices |-> {}]
  /\ decode_enumerated = [d \in Devices |-> FALSE]
  /\ InitSession

Init ==
  /\ InitCollectors
  /\ pc = "interface" /\ idx = 0 /\ done = FALSE /\ valid = TRUE
  /\ grbm_counts = <<>> /\ report = <<>> /\ polls = 0
  /\ counters = <<GRBM>> /\ agents = 1 /\ handlers = {}

(***************************************************************************)
(* device_collector::device_collector (lines 97-112), called by tool_init  *)
(* for one agent: context creation, then the counting-service setup; a     *)
(* failure of either throws and no collector is added.  DimsOk: whether    *)
(* the device's dimension queries may fail.                                *)
(***************************************************************************)
Construct(d, DimsOk) ==
  /\ d = Len(collectors) + 1
  /\ d <= agents
  /\ \E ctxOk \in BOOLEAN, svcOk \in BOOLEAN, dimsOk \in DimsOk :
       /\ hw_ctx' = [hw_ctx EXCEPT ![d] = IF ctxOk THEN "created" ELSE @]
       /\ hw_dims_ok' = [hw_dims_ok EXCEPT ![d] = dimsOk]
       /\ collectors' = IF ctxOk /\ svcOk THEN Append(collectors, d) ELSE collectors
       /\ call' = [NoCall EXCEPT
                     !.op = "construct", !.dev = d,
                     !.hw_failed = ~(ctxOk /\ svcOk),
                     !.threw = IF ~ctxOk THEN "context creation failed"
                               ELSE IF ~svcOk THEN "Could not setup buffered service"
                               ELSE ""]
  /\ UNCHANGED <<profile_, cached_profiles_, profile_sizes_, id_to_name_,
                 hw_configs, records, values, history, decode_enumerated>>

\* a counter handle that is not in the device's catalog
UnknownHandle == 3

\* the record ids callers pass to decode_record_name
DecodeIds == { RecordId(CounterHandle[GRBM], 0), RecordId(CounterHandle[SQW], 1),
               RecordId(UnknownHandle, 0) }

\* a direct call of the public decode_record_name on collector d
Decode(d, rec_id) ==
  /\ d \in Range(collectors)
  /\ \E p \in decode_record_name(d, rec_id) :
       /\ id_to_name_' = [id_to_name_ EXCEPT ![d] = p.index]
       /\ decode_enumerated' = [decode_enumerated EXCEPT ![d] = @ \/ p.enumerated]
       /\ call' = [NoCall EXCEPT
                     !.op = "decode", !.dev = d, !.hw_failed = p.hw_failed,
                     !.decode_threw = p.threw, !.enumerated = p.enumerated,
                     !.reenumerated = (p.enumerated /\ decode_enumerated[d]),
                     !.decoded = p.name]
  /\ UNCHANGED <<collectors, profile_, cached_profiles_, profile_sizes_,
                 hw_ctx, hw_configs, hw_dims_ok, records, values, history>>

Sample(d, req, H) ==
  /\ d \in Range(collectors)
  /\ CacheHit(d, req) \/ Cardinality(DOMAIN cached_profiles_[d]) < MaxProfiles
  /\ \E r \in sample_counters(d, req, records, H) :
       \E p \in (IF r.threw = "" THEN process_records(d, r.out) ELSE {NotProcessed(d)}) :
         ApplySample(d, req, r, p)
  /\ UNCHANGED <<collectors, hw_dims_ok>>

Next ==
  \/ \E d \in Devices : Construct(d, BOOLEAN) /\ UNCHANGED mainVars
  \/ \E d \in Devices, req \in Requests :
       Sample(d, req, FreshHandles(d)) /\ UNCHANGED mainVars

Spec == Init /\ [][Next]_vars

(***************************************************************************)
(* The collector driven through sample_counters + process_records and     *)
(* through direct decode_record_name calls, in any order.                  *)
(***************************************************************************)
\* the requests sampled between decodes
DecodeRequests == { <<GRBM>>, <<SQW, GRBM>> }

NextDecode ==
  \/ \E d \in Devices : Construct(d, {TRUE}) /\ UNCHANGED mainVars
  \/ \E d \in Devices, req \in DecodeRequests :
       Sample(d, req, FreshHandles(d)) /\ UNCHANGED mainVars
  \/ \E d \in Devices, rec_id \in DecodeIds :
       Decode(d, rec_id) /\ UNCHANGED mainVars

DecodeSpec == Init /\ [][NextDecode]_vars

(***************************************************************************)
(* The program: tool_init builds one collector per GPU agent, main prints  *)
(* the start block, polls until the signal handler has set done, prints    *)
(* the end block and the validity line.  An exception that leaves a        *)
(* handler is not caught anywhere: the process is terminated ("aborted").  *)
(* tool_init is called by the rocprofiler runtime when it initializes:     *)
(* before main is entered (pc starts at "tool_init"), or from the first    *)
(* HIP call of main, hipGetDeviceCount at line 356 (pc starts at "enter"). *)
(* main installs signal_handler for SIGTERM (line 352), then for SIGINT    *)
(* (line 353); a signal whose handler is not installed yet has its default *)
(* disposition and terminates the process ("killed").                      *)
(***************************************************************************)
\* the command lines: argv[1..] is appended to {"GRBM_COUNT"}
Argvs == { <<>>, <<SQW>>, <<BOGUS>> }

MainInit ==
  /\ InitCollectors
  /\ pc \in {"tool_init", "enter"} /\ idx = 1 /\ done = FALSE /\ valid = TRUE
  /\ grbm_counts = <<>> /\ report = <<>> /\ polls = 0
  /\ counters \in {<<GRBM>> \o a : a \in Argvs}
  /\ agents \in 0..NumDevices
  /\ handlers = {}

\* values["GRBM_COUNT"]: operator[] yields 0 for a missing key
GrbmOf(vals) == IF GRBM \in DOMAIN vals THEN vals[GRBM] ELSE 0

\* a line of the report (standard output) that carries no counter value
Line(text) == [text |-> text, values |-> EmptyMap]

\* print_values: one "- gpu:" entry followed by one "  - name: value" line
\* for every pair of the mapping (in the order of the unordered_map, which
\* the model leaves out)
GpuEntry(vals) == [text |-> "- gpu:", values |-> vals]

Running == pc \notin {"exit", "aborted", "finalized", "killed"}

(***************************************************************************)
(* signal_handler: SIGTERM and SIGINT set done, at any moment once main    *)
(* has installed it for that signal.                                       *)
(***************************************************************************)
signal_handler(sig) ==
  /\ Running
  /\ sig \in handlers
  /\ done' = IF sig \in {"SIGTERM", "SIGINT"} THEN TRUE ELSE done
  /\ UNCHANGED <<collectorVars, callerVars, pc, idx, valid, grbm_counts,
                 report, polls, counters, agents, handlers, sessionVars>>

\* the signals main handles
Signals == {"SIGTERM", "SIGINT"}

\* a SIGTERM that arrives before line 352 has run, or a SIGINT before line
\* 353 has: the process is terminated by the signal, nothing more is
\* printed, tool_fini is not run
SignalBeforeHandlers(sig) ==
  /\ Running
  /\ sig \notin handlers
  /\ sig \in Signals
  /\ pc' = "killed"
  /\ UNCHANGED <<collectorVars, callerVars, idx, done, valid, grbm_counts,
                 report, polls, counters, agents, handlers, sessionVars>>

\* main, lines 352-353: one call of signal() per step, SIGTERM first
InstallHandler ==
  /\ pc \in {"enter", "main"}
  /\ handlers # Signals
  /\ handlers' = IF "SIGTERM" \in handlers THEN Signals ELSE {"SIGTERM"}
  /\ UNCHANGED <<collectorVars, callerVars, pc, idx, done, valid, grbm_counts,
                 report, polls, counters, agents, sessionVars>>

\* main, lines 355-356, when the runtime has not initialized the tool yet:
\* hipGetDeviceCount makes the runtime call tool_init
MainEnter ==
  /\ pc = "enter"
  /\ handlers = Signals
  /\ pc' = "tool_init"
  /\ UNCHANGED <<collectorVars, callerVars, idx, done, valid, grbm_counts,
                 report, polls, counters, agents, handlers, sessionVars>>

(***************************************************************************)
(* device_collector::get_agents: the number of GPU agents the hardware     *)
(* layer lists; throws when rocprofiler_query_available_agents reports     *)
(* non-success, and when the listing callback is handed a version that is  *)
(* not the expected one.                                                   *)
(***************************************************************************)
get_agents ==
  { [threw |-> "", hw_failed |-> FALSE, found |-> agents],
    [threw |-> "query available agents", hw_failed |-> TRUE, found |-> 0],
    [threw |-> "unexpected rocprofiler agent version", hw_failed |-> FALSE,
     found |-> 0] }

(***************************************************************************)
(* tool_init: get_agents first (an exception of it leaves tool_init); no   *)
(* agents -> "No agents found", return -1; otherwise one collector is      *)
(* constructed per agent (one step per agent here, get_agents in the       *)
(* first).                                                                 *)
(***************************************************************************)
tool_init ==
  /\ pc = "tool_init"
  /\ \E a \in (IF collectors = <<>> THEN get_agents
                ELSE {[threw |-> "", hw_failed |-> FALSE, found |-> agents]}) :
       IF a.threw # ""
         THEN /\ pc' = "aborted"
              /\ call' = [NoCall EXCEPT !.op = "tool_init", !.threw = a.threw,
                                        !.hw_failed = a.hw_failed]
              /\ UNCHANGED <<collectorVars, records, values, history,
                             decode_enumerated>>
         ELSE IF a.found = 0
           THEN /\ pc' = "main"
                /\ call' = [NoCall EXCEPT !.op = "tool_init",
                                          !.threw = "No agents found"]
                /\ UNCHANGED <<collectorVars, records, values, history,
                               decode_enumerated>>
           ELSE /\ Construct(Len(collectors) + 1, BOOLEAN)
                /\ pc' = IF call'.threw # "" THEN "aborted"
                         ELSE IF Len(collectors') = a.found THEN "main"
                         ELSE "tool_init"
  /\ UNCHANGED <<idx, done, valid, grbm_counts, report, polls, counters, agents,
                 handlers, sessionVars>>

\* main, lines 355-369 once the handlers are installed and tool_init has
\* returned: "start:" is printed
MainBegin ==
  /\ pc = "main"
  /\ handlers = Signals
  /\ report' = <<Line("start:")>>
  /\ idx' = 1
  /\ pc' = IF collectors = <<>> THEN "loop" ELSE "start"
  /\ UNCHANGED <<collectorVars, callerVars, done, valid, grbm_counts, polls,
                 counters, agents, handlers, sessionVars>>

\* the outcomes of one sample_counters + process_records of main on
\* collectors[idx]: whether an exception left the pair, and the mapping
MainSampleOutcomes ==
  LET d == collectors[idx]
  IN UNION { { [r |-> r, p |-> p, threw |-> (r.threw # "" \/ p.threw # ""),
                vals |-> p.values]
               : p \in (IF r.threw = "" THEN process_records(d, r.out)
                        ELSE {NotProcessed(d)}) }
             : r \in sample_counters(d, counters, records, FreshHandles(d)) }

\* the effect of outcome o on the collector and on main's buffer
MainSample(o) ==
  /\ ApplySample(collectors[idx], counters, o.r, o.p)
  /\ UNCHANGED <<collectors, hw_dims_ok, done, counters, agents, handlers,
                 sessionVars>>

\* main, lines 370-375: one iteration of the start block
StartSample ==
  /\ pc = "start"
  /\ \E o \in MainSampleOutcomes :
       /\ MainSample(o)
       /\ IF o.threw
            THEN pc' = "aborted" /\ UNCHANGED <<idx, grbm_counts, report>>
            ELSE /\ report' = Append(report, GpuEntry(o.vals))
                 /\ grbm_counts' = Append(grbm_counts, GrbmOf(o.vals))
                 /\ idx' = IF idx < Len(collectors) THEN idx + 1 ELSE 1
                 /\ pc' = IF idx < Len(collectors) THEN "start" ELSE "loop"
  /\ UNCHANGED <<valid, polls>>

\* main, lines 377-379 and 396: the test of done, then the sleep or "end:"
LoopCheck ==
  /\ pc = "loop"
  /\ IF done
       THEN /\ report' = Append(report, Line("end:"))
            /\ pc' = IF collectors = <<>> THEN "valid" ELSE "end"
            /\ UNCHANGED polls
       ELSE /\ polls < MaxPolls
            /\ polls' = polls + 1
            /\ pc' = IF grbm_counts = <<>> THEN "loop" ELSE "poll"
            /\ UNCHANGED report
  /\ idx' = 1
  /\ UNCHANGED <<collectorVars, callerVars, done, valid, grbm_counts,
                 counters, agents, handlers, sessionVars>>

\* a flag recomputed from the latest pair of samples alone
NextValid_Recomputed(was_valid, previous, current) == ~(current < previous)

\* main, lines 389-392: the flag is cleared on a strict decrease and is
\* never set again
NextValid(was_valid, previous, current) ==
  IF current < previous THEN FALSE ELSE was_valid

\* a loop that gives up once the session is invalid
PollNextPc_StopsWhenInvalid(i, n, now_valid) ==
  IF ~now_valid THEN "aborted" ELSE IF i < n THEN "poll" ELSE "loop"

\* main, line 379: the for loop goes on to the next device, or back to the
\* test of done, whatever the validity flag is
PollNextPc(i, n, now_valid) == IF i < n THEN "poll" ELSE "loop"

\* main, lines 380-392: one iteration of the polling loop's body
PollSample ==
  /\ pc = "poll"
  /\ \E o \in MainSampleOutcomes :
       /\ MainSample(o)
       /\ IF o.threw
            THEN pc' = "aborted" /\ UNCHANGED <<idx, grbm_counts, valid>>
            ELSE LET previous == grbm_counts[idx]
                 IN /\ grbm_counts' = [grbm_counts EXCEPT ![idx] = GrbmOf(o.vals)]
                    /\ valid' = NextValid(valid, previous, GrbmOf(o.vals))
                    /\ idx' = IF idx < Len(grbm_counts) THEN idx + 1 ELSE 1
                    /\ pc' = PollNextPc(idx, Len(grbm_counts), valid')
  /\ UNCHANGED <<report, polls>>

\* main, lines 397-401: one iteration of the end block
EndSample ==
  /\ pc = "end"
  /\ \E o \in MainSampleOutcomes :
       /\ MainSample(o)
       /\ IF o.threw
            THEN pc' = "aborted" /\ UNCHANGED <<idx, report>>
            ELSE /\ report' = Append(report, GpuEntry(o.vals))
                 /\ idx' = IF idx < Len(collectors) THEN idx + 1 ELSE 1
                 /\ pc' = IF idx < Len(collectors) THEN "end" ELSE "valid"
  /\ UNCHANGED <<valid, grbm_counts, polls>>

\* main, lines 402-403: "valid: " << valid prints the bool as 1 or 0; main
\* returns, which is exit status 0
PrintValid ==
  /\ pc = "valid"
  /\ report' = Append(report, Line(IF valid THEN "valid: 1" ELSE "valid: 0"))
  /\ pc' = "exit"
  /\ UNCHANGED <<collectorVars, callerVars, idx, done, valid, grbm_counts,
                 polls, counters, agents, handlers, sessionVars>>

(***************************************************************************)
(* tool_fini, run by the hardware layer's finalization once main has       *)
(* returned: stop() on every collector; the status of                      *)
(* rocprofiler_stop_context is dropped, the contexts in halted are those   *)
(* the hardware layer did stop.                                            *)
(***************************************************************************)
tool_fini ==
  /\ pc = "exit"
  /\ \E halted \in SUBSET Range(collectors) :
       hw_ctx' = [d \in Devices |-> IF d \in halted THEN "stopped" ELSE hw_ctx[d]]
  /\ call' = [NoCall EXCEPT !.op = "tool_fini", !.handed = Range(collectors)]
  /\ pc' = "finalized"
  /\ UNCHANGED <<collectors, profile_, cached_profiles_, profile_sizes_,
                 id_to_name_, hw_configs, hw_dims_ok, records, values, history,
                 decode_enumerated, idx, done, valid, grbm_counts, report,
                 polls, counters, agents, handlers, sessionVars>>

MainNext ==
  \/ \E sig \in Signals : signal_handler(sig)
  \/ \E sig \in Signals : SignalBeforeHandlers(sig)
  \/ InstallHandler
  \/ MainEnter
  \/ tool_init
  \/ MainBegin
  \/ StartSample
  \/ LoopCheck
  \/ PollSample
  \/ EndSample
  \/ PrintValid
  \/ tool_fini

MainSpec == MainInit /\ [][MainNext]_vars

\* the steps of the program itself (everything but the signal's arrival)
ProgramStep ==
  InstallHandler \/ MainEnter \/ tool_init \/ MainBegin \/ StartSample
    \/ LoopCheck \/ PollSample \/ EndSample \/ PrintValid \/ tool_fini

(***************************************************************************)
(* The program under its scheduling: the single thread keeps running, and  *)
(* every hardware call and the one-second sleep return.                    *)
(***************************************************************************)
MainFair == MainSpec /\ WF_vars(ProgramStep)

(***************************************************************************)
(* The collector driven through its interface by a hardware layer that may *)
(* return any handle value from rocprofiler_create_profile_config.         *)
(***************************************************************************)
AnyHandles == {0, 1, 2}

NextAnyHandle ==
  \/ \E d \in Devices : Construct(d, BOOLEAN) /\ UNCHANGED mainVars
  \/ \E d \in Devices, req \in Requests :
       Sample(d, req, AnyHandles) /\ UNCHANGED mainVars

AnyHandleSpec == Init /\ [][NextAnyHandle]_vars

\* the mappings the sample of this step could have produced, for the same
\* answer of the hardware layer, had no other device's sample come before
\* it (the caller's buffer as main creates it)
ValuesOnItsOwn(d, status) ==
  UNION { { p.values : p \in {q \in process_records(d, r.out) : q.threw = ""} }
          : r \in { x \in sample_counters(d, counters, <<>>, FreshHandles(d)) :
                      x.threw = "" /\ x.status = status } }

(***************************************************************************)
(* Properties.                                                             *)
(***************************************************************************)
\* the last operation was a sample_counters call that returned
Sampled == call.op = "sample" /\ call.threw = ""

\* the handles recorded for request req on device d by completed samples
HandlesOf(d, req) == {h[2] : h \in {x \in history[d] : x[1] = req}}

\* C1: a sample of a request that was already sampled on this collector
\* finds it in the cache: it returns, uses the handle the earlier sample
\* used, and neither queries the catalog nor asks for a profile to be built.
C1_RepeatedRequestHitsCache ==
  /\ \A d \in Devices : \A req \in Requests : Cardinality(HandlesOf(d, req)) <= 1
  /\ (call.op = "sample" /\ call.seen_before) =>
       /\ call.threw = "" /\ call.hit
       /\ HandlesOf(call.dev, call.req) = {call.handle}
       /\ ~call.catalog_queried /\ ~call.profile_requested

C1_Witness ==
  /\ call.op = "sample" /\ call.seen_before /\ call.hit
  /\ Cardinality(DOMAIN cached_profiles_[call.dev]) = 2

\* a step that completes one sample_counters + process_records of a block
SampleStepOf(block) ==
  pc = block /\ pc' # "aborted" /\ (pc' # pc \/ idx' # idx)

\* C2: the flag becomes false on, and only on, a strict decrease between two
\* consecutive samples of one device, in the polling loop and in the end
\* block alike; it is never changed by anything else.
C2_InvalidOnEveryDecrease ==
  [][ /\ (SampleStepOf("poll") \/ SampleStepOf("end")) =>
           (valid' = (valid /\ ~(GrbmOf(values') < grbm_counts[idx])))
      /\ ~(SampleStepOf("poll") \/ SampleStepOf("end")) => valid' = valid ]_vars

\* C3: once the flag is false it stays false, and the last report line at
\* exit is "valid: 0" exactly when the flag is false and "valid: 1" otherwise.
C3_InvalidIsTerminal ==
  [][ /\ ~valid => ~valid'
      /\ pc' = "exit" =>
           /\ report' # <<>>
           /\ (report'[Len(report')] = Line("valid: 0")) = (~valid')
           /\ (report'[Len(report')] = Line("valid: 1")) = valid' ]_vars

C3_Witness ==
  /\ pc = "exit" /\ ~valid /\ report[Len(report)] = Line("valid: 0")
  /\ Len(grbm_counts) = 1 /\ grbm_counts[1] > 0 /\ polls = 2

\* the expected record count of a request: the sum over its resolved
\* counters of the product of the counter's dimension sizes
TrueExpected(req) ==
  SumSeq([k \in DOMAIN GpuCounters(req) |-> TrueSize(GpuCounters(req)[k])])

\* C4: every cached request has, as its expected record count, the sum over
\* its resolved counters of the product of their dimension sizes (stated
\* here for devices whose dimension queries all succeed).
C4_CachedSizeIsSumOfProducts ==
  \A d \in Devices :
    hw_dims_ok[d] =>
      \A req \in DOMAIN cached_profiles_[d] :
        profile_sizes_[d][cached_profiles_[d][req]] = TrueExpected(req)

\* C5: a sample call returns at most as many records as the expected count
\* the buffer was allocated to.
C5_ReturnedWithinExpected ==
  Sampled => call.returned <= call.expected

\* C6: unknown names do not make a sample fail: a failure comes with a
\* hardware call that reported non-success; the profile built holds exactly
\* the request's known counters; a request of unknown names only returns
\* zero records and an empty mapping.
C6_UnknownNamesAreSkipped ==
  call.op = "sample" =>
    /\ (call.threw # "" \/ call.decode_threw # "") => call.hw_failed
    /\ call.threw = "" =>
         Range(hw_configs[call.dev][call.handle])
           = {CounterHandle[n] : n \in Range(call.req) \cap KnownNames}
    /\ (call.threw = "" /\ Range(call.req) \cap KnownNames = {}) =>
         /\ call.returned = 0 /\ records = <<>>
         /\ call.decode_threw = "" /\ values = EmptyMap

C6_Witness ==
  /\ Sampled /\ call.req = <<BOGUS>> /\ ~call.hit /\ ~call.hw_failed
  /\ call.returned = 0 /\ values = EmptyMap
  /\ cached_profiles_[call.dev] # EmptyMap

\* C7: the mapping aggregated from a sample of a request that mixes known
\* and unknown names has keys only for known names of that request, and the
\* call that builds the request's profile warns about each unknown name.
C7_KeysAreKnownNamesOfRequest ==
  (call.op = "sample" /\ Range(call.req) \cap KnownNames # {}
                      /\ Range(call.req) \ KnownNames # {}) =>
    /\ (call.threw = "" /\ call.decode_threw = "") =>
         DOMAIN values \subseteq (Range(call.req) \cap KnownNames)
    /\ call.profile_requested =>
         Range(call.warned) = Range(call.req) \ KnownNames

\* C8: an operation in which a hardware call reported non-success throws,
\* and returns no record.
C8_HardwareFailureAborts ==
  (call.op \in {"sample", "construct"} /\ call.hw_failed) =>
    /\ call.threw # "" \/ call.decode_threw # ""
    /\ call.returned = 0

\* the report ends with the end block, one entry per collector, and one
\* validity line, which is the only one
ReportComplete ==
  LET n == Len(collectors)
      L == Len(report)
      ValidLines == {"valid: 0", "valid: 1"}
  IN /\ L >= n + 3
     /\ report[L] \in {Line(v) : v \in ValidLines}
     /\ \A k \in 1..(L - 1) : report[k].text \notin ValidLines
     /\ report[L - n - 1] = Line("end:")
     /\ \A k \in (L - n)..(L - 1) : report[k].text = "- gpu:"

\* main has returned (status 0); the teardown may have run since
Exited == pc \in {"exit", "finalized"}

\* the flag is read only by the loop test: polling goes on while it is
\* unset, and an iteration in progress samples every device before the test
FlagReadBetweenIterations ==
  [][ /\ (pc = "loop" /\ pc' \in {"end", "valid"}) => done
      /\ (pc = "loop" /\ ~done /\ pc' # pc) => pc' = "poll"
      /\ (pc = "poll" /\ pc' # pc) =>
           (pc' = "aborted" \/ (pc' = "loop" /\ idx = Len(collectors)))
      /\ pc' = "exit" => ReportComplete' ]_vars

\* C9: polling goes on until a signal sets the flag, which is read only
\* between iterations; once the flag is set the process always reaches its
\* exit with the complete report and status 0.
C9_SignalAlwaysLeadsToExit ==
  /\ FlagReadBetweenIterations
  /\ done ~> (Exited /\ ReportComplete)

\* C10: invalidity does not halt sampling: the step that clears the flag and
\* every later step go on as they would otherwise, only a failure reported
\* by the hardware layer terminates the process, and once the flag is unset
\* and cancellation has come the end block is sampled and printed.
C10_InvalidityNeverHalts ==
  /\ [][ ~valid' =>
           /\ pc' = "aborted" => call'.hw_failed
           /\ (pc = "poll" /\ pc' # pc) =>
                (pc' = "aborted" \/ (pc' = "loop" /\ idx = Len(collectors)))
           /\ (pc = "loop" /\ ~done /\ pc' # pc) => pc' = "poll"
           /\ pc' = "exit" => ReportComplete' ]_vars
  /\ (~valid /\ done) ~> ((Exited /\ ReportComplete) \/ pc = "aborted")

C10_Witness ==
  /\ ~valid /\ pc = "poll" /\ idx = 2 /\ polls = 2 /\ ~done

\* C11: a sample that returns leaves the device context started; a context
\* is stopped only by the teardown that follows main's return, which calls
\* stop() on each collector, once; nothing runs after that teardown, so no
\* collector is sampled after its stop().
C11_StartedUntilTeardown ==
  [][ /\ (call'.op = "sample" /\ call'.threw = "") =>
           hw_ctx'[call'.dev] = "active"
      /\ \A d \in Devices :
           (hw_ctx'[d] = "stopped" /\ hw_ctx[d] # "stopped") =>
             (pc = "exit" /\ pc' = "finalized")
      /\ (pc' = "finalized" /\ pc # "finalized") =>
           (call'.op = "tool_fini" /\ call'.handed = Range(collectors))
      /\ pc # "finalized" ]_vars

\* C12: the cache never evicts or replaces: on every step each cached
\* request keeps its entry, its profile handle and its expected count.
C12_CacheOnlyGrows ==
  [][ \A d \in Devices : \A k \in DOMAIN cached_profiles_[d] :
        /\ k \in DOMAIN cached_profiles_'[d]
        /\ cached_profiles_'[d][k] = cached_profiles_[d][k]
        /\ cached_profiles_[d][k] \in DOMAIN profile_sizes_[d]
        /\ cached_profiles_[d][k] \in DOMAIN profile_sizes_'[d]
        /\ profile_sizes_'[d][cached_profiles_[d][k]]
             = profile_sizes_[d][cached_profiles_[d][k]] ]_vars

C12_Witness ==
  /\ call.op = "sample" /\ call.threw # "" /\ ~call.hit
  /\ cached_profiles_[call.dev] # EmptyMap
  /\ call.req \notin DOMAIN cached_profiles_[call.dev]

\* C13: a request that is not cached, while a request of the same names in
\* another order or multiplicity is, misses: the catalog is queried, a
\* profile is built and stored as a second entry with its own handle, and
\* the entries already there are left as they were.
C13_OrderSensitiveKeys ==
  [][ \A d \in Devices : \A req \in Requests :
        ( /\ call'.op = "sample" /\ call'.dev = d /\ call'.req = req
          /\ req \notin DOMAIN cached_profiles_[d]
          /\ \E k \in DOMAIN cached_profiles_[d] : Range(k) = Range(req) ) =>
          /\ ~call'.hit /\ call'.catalog_queried
          /\ call'.threw = "" =>
               /\ call'.profile_requested
               /\ DOMAIN cached_profiles_'[d] = DOMAIN cached_profiles_[d] \cup {req}
               /\ \A k \in DOMAIN cached_profiles_[d] :
                    /\ cached_profiles_'[d][k] = cached_profiles_[d][k]
                    /\ cached_profiles_'[d][req] # cached_profiles_[d][k]
                    /\ profile_sizes_'[d][cached_profiles_[d][k]]
                         = profile_sizes_[d][cached_profiles_[d][k]] ]_vars

C13_Witness ==
  \E d \in Devices :
    /\ {<<GRBM, SQW>>, <<SQW, GRBM>>} \subseteq DOMAIN cached_profiles_[d]
    /\ cached_profiles_[d][<<GRBM, SQW>>] # cached_profiles_[d][<<SQW, GRBM>>]
    /\ call.op = "sample" /\ call.req = <<SQW, GRBM>> /\ ~call.hit

\* the records of the buffer that carry a non-zero id and decode to name
RecordsNamed(name) ==
  SelectSeq(records, LAMBDA rec :
    rec.id # 0 /\ NameIndex[QueryRecordCounterId(rec.id)] = name)

\* C14: the mapping aggregated from a sample has exactly the names that at
\* least one record with a non-zero id decodes to, and maps each of them to
\* the sum of the values of the records that decode to it.
C14_ValuesAreSumsByName ==
  (call.op = "sample" /\ call.threw = "" /\ call.decode_threw = "") =>
    /\ DOMAIN values = {n \in KnownNames : RecordsNamed(n) # <<>>}
    /\ \A n \in DOMAIN values :
         values[n] = SumSeq([k \in DOMAIN RecordsNamed(n) |->
                              RecordsNamed(n)[k].counter_value])

C14_Witness ==
  /\ call.op = "sample" /\ call.threw = "" /\ call.decode_threw = ""
  /\ call.status = "ok" /\ Len(records) = 5
  /\ DOMAIN values = {GRBM, SQW}
  /\ values[GRBM] = 2 /\ values[SQW] = 3

\* C15: when no collector was built, the process prints no report, does not
\* enter the polling loop and does not reach the exit of main (status 0).
C15_NoDeviceNoRun ==
  collectors = <<>> =>
    /\ report = <<>>
    /\ pc \notin {"start", "loop", "poll", "end", "valid", "exit", "finalized"}

\* C16: "start:" is printed once, first; every polling sample of a device
\* adds an entry to the report (an update section per polling iteration);
\* the report of a run that exits ends with the end section; and every
\* "- gpu:" entry is printed by the sample of its device and carries that
\* device's counter values: what the hardware sample of the entry's own
\* call read for the device.
C16_UpdateSectionPerIteration ==
  [][ /\ report' # <<>> =>
           (report'[1] = Line("start:")
              /\ \A k \in 2..Len(report') : report'[k] # Line("start:"))
      /\ SampleStepOf("poll") => Len(report') > Len(report)
      /\ (SampleStepOf("start") \/ SampleStepOf("end")) =>
           /\ Len(report') = Len(report) + 1
           /\ report'[Len(report')].text = "- gpu:"
           /\ call'.op = "sample" /\ call'.dev = collectors[idx]
           /\ report'[Len(report')].values
                \in ValuesOnItsOwn(collectors[idx], call'.status)
      /\ pc' = "exit" => ReportComplete' ]_vars

\* C17: after a sample call the buffer holds only records of that call:
\* every record with a non-zero id was written by the call's own hardware
\* sample, at its place among the records of the call's profile.
C17_NoStaleRecords ==
  Sampled =>
    \A k \in DOMAIN records :
      records[k].id # 0 =>
        /\ call.status = "ok"
        /\ k <= Len(Slots(ConfigOf(hw_configs[call.dev], call.handle)))
        /\ records[k].id = Slots(ConfigOf(hw_configs[call.dev], call.handle))[k]

\* C18: when a sample call requests the synchronous sample, profile_ is the
\* cached profile of the call's request and it is the profile the callback
\* hands to the context, whatever request the previous call used; while no
\* sample has selected a profile the callback hands nothing over.
C18_ActiveProfileIsTheRequests ==
  /\ \A d \in Devices :
       /\ profile_[d] = 0 => set_profile(profile_[d]) = {}
       /\ history[d] = {} => profile_[d] = 0
  /\ Sampled =>
       /\ CacheKey(call.req) \in DOMAIN cached_profiles_[call.dev]
       /\ call.handle = cached_profiles_[call.dev][CacheKey(call.req)]
       /\ profile_[call.dev] = call.handle
       /\ call.handed = {call.handle}

C18_Witness ==
  /\ Sampled /\ call.hit /\ call.handed = {call.handle}
  /\ \E h \in history[call.dev] : h[2] > call.handle
  /\ profile_[call.dev] = cached_profiles_[call.dev][call.req]

\* a call that reaches decode_record_name
Decodes(c) == c.op \in {"sample", "decode"}

\* C19 as stated: over any sequence of decodes on one collector the catalog
\* is enumerated by one call at most, and a decode of a handle that is not
\* in the index fails with out_of_range and adds no entry for it.
C19_CatalogEnumeratedOnce ==
  Decodes(call) =>
    /\ ~call.reenumerated
    /\ call.decode_threw = "out_of_range" =>
         UnknownHandle \notin DOMAIN id_to_name_[call.dev]

\* C19, amended: the catalog is enumerated only by a decode that finds the
\* index empty; an enumeration that succeeds fills the index, which never
\* changes afterwards, so no later decode enumerates; an enumeration that
\* fails leaves the index empty; a decode of a handle that is not in the
\* index fails with out_of_range and adds no entry for it.
C19_EnumeratedWhileIndexEmpty ==
  [][ \A d \in Devices :
        (Decodes(call') /\ call'.dev = d) =>
          /\ call'.enumerated => id_to_name_[d] = EmptyMap
          /\ id_to_name_[d] # EmptyMap => id_to_name_'[d] = id_to_name_[d]
          /\ call'.enumerated =>
               id_to_name_'[d] =
                 IF call'.decode_threw \in CatalogFailures
                   THEN EmptyMap ELSE NameIndex
          /\ call'.decode_threw = "out_of_range" =>
               /\ id_to_name_'[d] = NameIndex
               /\ UnknownHandle \notin DOMAIN id_to_name_'[d]
          /\ (call'.op = "decode" /\ call'.decode_threw = "") =>
               call'.decoded \in KnownNames ]_vars

C19_Witness ==
  /\ call.op = "decode" /\ call.decode_threw = "out_of_range"
  /\ ~call.hw_failed
  /\ ~call.enumerated /\ decode_enumerated[call.dev]
  /\ id_to_name_[call.dev] = NameIndex

\* a step of main that samples collectors[idx]
MainSampleStep == pc \in {"start", "poll", "end"} /\ done' = done

\* C20: a sample of one device leaves the cache, the size table, the active
\* profile, the name index and the baseline of every other device as they
\* were, and what it yields for its device does not depend on the samples
\* of other devices that came before it (so any sampling order gives the
\* same per-device results and validity).
C20_DevicesAreIndependent ==
  [][ MainSampleStep =>
        LET d == collectors[idx]
        IN /\ \A j \in Devices \ {d} :
                /\ cached_profiles_'[j] = cached_profiles_[j]
                /\ profile_sizes_'[j] = profile_sizes_[j]
                /\ profile_'[j] = profile_[j]
                /\ id_to_name_'[j] = id_to_name_[j]
                /\ hw_ctx'[j] = hw_ctx[j]
                /\ (pc = "poll" /\ j \in DOMAIN grbm_counts) =>
                     grbm_counts'[j] = grbm_counts[j]
           /\ (call'.threw = "" /\ call'.decode_threw = ""
                 /\ call.op = "sample" /\ call.dev # d) =>
                values' \in ValuesOnItsOwn(d, call'.status) ]_vars

\* C21: a sample whose profile build fails (catalog query or profile
\* creation) throws and leaves the collector and the caller's buffer as
\* they were: no cache entry, no size entry, the same active profile; the
\* request is still not cached, and a sample of a request that is not
\* cached is a miss that queries the catalog again.
C21_FailedBuildChangesNothing ==
  [][ /\ (call'.op = "sample" /\ call'.threw # "") =>
           /\ call'.threw \in CatalogFailures \cup {"Could not create profile"}
           /\ ~call'.hit /\ call'.hw_failed /\ call'.returned = 0
           /\ cached_profiles_' = cached_profiles_
           /\ profile_sizes_' = profile_sizes_
           /\ profile_' = profile_
           /\ hw_ctx' = hw_ctx /\ id_to_name_' = id_to_name_
           /\ records' = records /\ values' = values
           /\ CacheKey(call'.req) \notin DOMAIN cached_profiles_'[call'.dev]
      /\ (call'.op = "sample"
            /\ CacheKey(call'.req) \notin DOMAIN cached_profiles_[call'.dev]) =>
           (~call'.hit /\ call'.catalog_queried) ]_vars

C21_Witness ==
  /\ call.op = "sample" /\ call.threw = "Could not create profile"
  /\ profile_[call.dev] # 0
  /\ profile_[call.dev] \in Range(cached_profiles_[call.dev])
  /\ Cardinality(DOMAIN profile_sizes_[call.dev]) = 1

(***************************************************************************)
(* The Python binding (src/pyrocprofiler): DeviceSession and the methods   *)
(* of its Python type.  ROCPROF_CHECK only prints on a non-success status, *)
(* so every loop runs over all m_num_gpus sessions whatever the hardware   *)
(* layer answers.                                                          *)
(***************************************************************************)
\* sessions the hardware layer is asked to create over a run
MaxSessions == 4

\* the metric-name lists callers pass to create
MetricLists == { <<GRBM>>, <<GRBM, SQW>> }

\* a method of the session object can be called: the process is alive (the
\* methods do not look at whether create was called)
Usable == ~py.crashed

otherVars == <<collectorVars, callerVars, pc, idx, done, valid, grbm_counts,
               report, polls, counters, agents, handlers>>

\* DeviceSession_init, the type's __init__: a new DeviceSession is allocated
\* and value-initialized in place of the one the object had (which is not
\* destroyed: its hardware sessions stay as they are); when PyObject_Malloc
\* fails, m_device_session is left NULL and RuntimeError is raised
DeviceSession_init ==
  /\ Usable
  /\ m_num_gpus' = 0 /\ m_sessions' = <<>> /\ m_metrics' = <<>>
  /\ created' = FALSE
  /\ \E allocated \in BOOLEAN :
       /\ m_device_session' = IF allocated THEN "object" ELSE "NULL"
       /\ py' = [NoPyCall EXCEPT
                   !.op = "init",
                   !.raised = IF allocated THEN "" ELSE "Memory allocation failed"]
  /\ UNCHANGED <<hw_sessions, otherVars>>

\* a method called while m_device_session is NULL: the member is accessed
\* through the null pointer and the process dies
NullSession(op) ==
  /\ Usable
  /\ m_device_session = "NULL"
  /\ py' = [py EXCEPT !.op = op, !.crashed = TRUE, !.raised = "",
                      !.list = <<>>, !.acted = {}]
  /\ UNCHANGED <<m_num_gpus, m_sessions, m_metrics, hw_sessions, created,
                 m_device_session, otherVars>>

\* the ids create leaves in m_sessions when the session-create calls of the
\* GPUs in ok succeed: a fresh id for each of them, in loop order; the entry
\* of a GPU whose call fails keeps its value-initialized id 0
SessionIds(ok) ==
  [i \in 1..agents |->
     IF i \in ok THEN Len(hw_sessions) + Cardinality({k \in ok : k <= i}) ELSE 0]

\* DeviceSession::create and DeviceSession_create: hipGetDeviceCount yields
\* the number of GPUs (HIP_CHECK calls abort() when it fails), m_sessions
\* and m_metrics are rebuilt for that many GPUs, the creation of one session
\* per GPU is requested (ROCPROF_CHECK only prints when it fails), and the
\* count is returned
DeviceSession_create(metric_names) ==
  /\ Usable
  /\ m_device_session = "object"
  /\ Len(hw_sessions) + agents <= MaxSessions
  /\ \/ /\ py' = [py EXCEPT !.op = "create", !.crashed = TRUE, !.raised = "",
                             !.list = <<>>, !.acted = {}]
        /\ UNCHANGED <<m_num_gpus, m_sessions, m_metrics, hw_sessions, created>>
     \/ \E ok \in SUBSET (1..agents) :
          /\ m_num_gpus' = agents
          /\ m_sessions' = SessionIds(ok)
          /\ m_metrics' = [i \in 1..agents |-> [j \in 1..Len(metric_names) |-> 0]]
          /\ hw_sessions' = hw_sessions \o [i \in 1..Cardinality(ok) |-> "created"]
          /\ created' = TRUE
          /\ py' = [NoPyCall EXCEPT
                      !.op = "create", !.num_gpus = agents,
                      !.num_metrics = Len(metric_names),
                      !.acted = {SessionIds(ok)[i] : i \in ok},
                      !.latest = {SessionIds(ok)[i] : i \in ok}]
  /\ UNCHANGED <<m_device_session, otherVars>>

\* the loop shared by destroy, start and stop: the hardware call is made on
\* m_sessions[i] for every i below m_num_gpus
SessionLoop(op, state) ==
  /\ Usable
  /\ m_device_session = "object"
  /\ hw_sessions' = [id \in DOMAIN hw_sessions |->
                       IF id \in {m_sessions[i] : i \in 1..m_num_gpus}
                            /\ hw_sessions[id] # "destroyed"
                         THEN state ELSE hw_sessions[id]]
  /\ py' = [py EXCEPT !.op = op, !.raised = "", !.list = <<>>,
                      !.acted = {m_sessions[i] : i \in 1..m_num_gpus}]
  /\ UNCHANGED <<m_num_gpus, m_sessions, m_metrics, created, m_device_session,
                 otherVars>>

DeviceSession_start == SessionLoop("start", "started")

DeviceSession_stop == SessionLoop("stop", "stopped")

DeviceSession_destroy == SessionLoop("destroy", "destroyed")

\* DeviceSession::poll: the hardware layer writes the row of every session
\* that is started (reading val) and reports an error for the others (an
\* id that names no session among them), whose row is left as it was
PollRows(val) ==
  [i \in 1..m_num_gpus |->
     IF m_sessions[i] \in DOMAIN hw_sessions
          /\ hw_sessions[m_sessions[i]] = "started"
       THEN [j \in DOMAIN m_metrics[i] |-> val] ELSE m_metrics[i]]

\* DeviceSession_poll, lines 110-124: the outcomes of building the Python
\* list from sample.  num_metrics is read from sample[0]; with an empty
\* sample that is a read outside the vector (undefined behaviour): the
\* process crashes, or the unused value is never read and the empty list
\* is returned.
PollOutcomes(sample) ==
  IF Len(sample) = 0
    THEN { [crashed |-> TRUE, list |-> <<>>], [crashed |-> FALSE, list |-> <<>>] }
    ELSE { [crashed |-> FALSE,
            list |-> [i \in 1..Len(sample) |->
                        [j \in 1..Len(sample[1]) |-> sample[i][j]]]] }

DeviceSession_poll ==
  /\ Usable
  /\ m_device_session = "object"
  /\ \E val \in 0..MaxVal :
       /\ m_metrics' = PollRows(val)
       /\ \E o \in PollOutcomes(PollRows(val)) :
            py' = [py EXCEPT !.op = "poll", !.crashed = o.crashed,
                             !.raised = "", !.list = o.list,
                             !.acted = {m_sessions[i] : i \in 1..m_num_gpus}]
  /\ UNCHANGED <<m_num_gpus, m_sessions, hw_sessions, created,
                 m_device_session, otherVars>>

\* the session object as DeviceSession_init leaves it, on a system with
\* agents GPUs (what hipGetDeviceCount reports)
SessionInit ==
  /\ InitCollectors
  /\ pc = "python" /\ idx = 0 /\ done = FALSE /\ valid = TRUE
  /\ grbm_counts = <<>> /\ report = <<>> /\ polls = 0
  /\ counters = <<>> /\ agents \in 0..NumDevices /\ handlers = {}

SessionNext ==
  \/ DeviceSession_init
  \/ \E metric_names \in MetricLists : DeviceSession_create(metric_names)
  \/ DeviceSession_start
  \/ DeviceSession_stop
  \/ DeviceSession_destroy
  \/ DeviceSession_poll
  \/ \E op \in {"create", "start", "stop", "destroy", "poll"} : NullSession(op)

SessionSpec == SessionInit /\ [][SessionNext]_vars

\* C22: after create has returned N, every poll returns N lists of
\* len(metric_names) values each, and start, stop, poll and destroy act on
\* exactly the N sessions the most recent create created.
C22_PollReturnsNByM ==
  created =>
    /\ py.op = "poll" =>
         /\ ~py.crashed
         /\ Len(py.list) = py.num_gpus
         /\ \A i \in DOMAIN py.list : Len(py.list[i]) = py.num_metrics
    /\ py.op \in {"start", "stop", "poll", "destroy"} =>
         (py.acted = py.latest /\ Cardinality(py.latest) = py.num_gpus)

====
